---- MODULE Spec2Model ----
(***************************************************************************)
(* State-machine model of the GZHU library sign-in script:                 *)
(*   src/sign.py          main(): the per-identity workflow loop           *)
(*   src/libs/source.py   ZWYT.login, get_login_url, get_ahead_reservation,*)
(*                        sign_for_ahead_reservation, sign, pushplus,      *)
(*                        reserve, get_reserve_date,                       *)
(*                        load_cookie_cache, save_cookie_cache             *)
(* Every HTTP request is one step; the server's answer is an input drawn   *)
(* with \E.  A Python exception is the outcome "fault" of a step.          *)
(***************************************************************************)
EXTENDS Integers, Sequences, FiniteSets, TLC

\* ------------------------------------------------------------- bounds ----
NumStu == 2          \* identities in target_infos
MaxRecords == 3      \* records in one reservation-list response (SpecInspect)
MaxWorkflowRecords == 1  \* records in one response of the whole workflow (Spec)
MaxRecursion == 3    \* depth at which the interpreter raises RecursionError
MaxStatus == 4400    \* largest status bitmask drawn in SpecInspect

\* -------------------------------------------------- program constants ----
AttemptsMut == 2 + 1
Attempts == 2        \* for _ in range(2)
CHECKED_IN == 64
TEMP_AWAY == 2048
CODE_OK == 0
CODE_EXPIRED == 300

ReturnCode ==
  {"SUCCESS", "ALREADY_SIGNED", "NO_RESERVATION", "GET_LOGIN_URL_FAILED",
   "LOGIN_SKIPED", "COOKIE_EXPIRED", "FAILED"}

\* ------------------------------------------------------- input domains ----
Ids == 1..NumStu
StuCookies == {"absent", "c0"}       \* stu has no 'cookie' key / has one
CachedTokens == {"", "k0"}           \* "" : the name is not in the cache
IssuedTokens == {"", "t1", "t2"}     \* what 'ic-cookie=(.*?);' can capture
Codes == {0, 300, 500}
Statuses == {2, 64, 2112}
Labels == {"101-011", "202-030"}
DevLists == {<<>>, <<"101-011">>, <<"202-030", "101-011">>}
Records == [resvStatus : Statuses, devs : DevLists]
SignMessages == {"ok", "already", "other", "none"}
\* "ok" = '操作成功', "already" = '用户已签到，请勿重复签到', "none" = no message
ResvIds == {"r1", "r2"}

RECURSIVE SeqsUpTo(_, _)
SeqsUpTo(S, n) ==
  IF n = 0 THEN {<<>>}
  ELSE LET shorter == SeqsUpTo(S, n - 1)
       IN  shorter \cup {Append(s, x) : s \in {t \in shorter : Len(t) = n - 1}, x \in S}

WorkflowRecords == [resvStatus : {2, 64}, devs : {<<>>, <<"101-011">>}]
Responses == [code : Codes, data : SeqsUpTo(WorkflowRecords, MaxWorkflowRecords)]
InspectResponses ==
  [code : Codes, data : SeqsUpTo(Records, MaxRecords)]
    \cup {[code |-> 0, data |-> <<[resvStatus |-> m, devs |-> <<"101-011">>]>>] :
            m \in 0..MaxStatus}
NoResp == [code |-> -1, data |-> <<>>]
NoReq == [kind |-> "none", who |-> 0, arg |-> "", ans |-> ""]

\* ------------------------------------------------------ pure functions ----
\* Python's a & b on non-negative integers.
RECURSIVE BitAnd(_, _)
BitAnd(a, b) ==
  IF a = 0 \/ b = 0 THEN 0
  ELSE (a % 2) * (b % 2) + 2 * BitAnd(a \div 2, b \div 2)

\* source.py:429  (resvStatus & 64 == 0) or (resvStatus & 2048 != 0)
NeedsSignInMut(resvStatus) ==
  (BitAnd(resvStatus, CHECKED_IN) = 0) /\ (BitAnd(resvStatus, TEMP_AWAY) # 0)
NeedsSignIn(resvStatus) ==
  (BitAnd(resvStatus, CHECKED_IN) = 0) \/ (BitAnd(resvStatus, TEMP_AWAY) # 0)

\* source.py:423-430  the loop that appends the kept items to resv
RECURSIVE FilterResv(_)
FilterResv(data) ==
  IF data = <<>> THEN <<>>
  ELSE IF NeedsSignIn(Head(data).resvStatus)
       THEN <<Head(data)>> \o FilterResv(Tail(data))
       ELSE FilterResv(Tail(data))

\* source.py:420-447  result of get_ahead_reservation for a parsed response;
\* kept is the local list resv, resv the returned item: <<>> for None and
\* <<item>> for a record.
GetAheadReservationMut(res) ==
  IF res.code = CODE_OK
  THEN LET resv == FilterResv(res.data)
       IN  IF Len(resv) = 0
           THEN [kept |-> resv, resv |-> <<>>, errc |-> "NO_RESERVATION"]
           ELSE [kept |-> resv, resv |-> <<resv[Len(resv)]>>, errc |-> "SUCCESS"]
  ELSE IF res.code = CODE_EXPIRED
       THEN [kept |-> <<>>, resv |-> <<>>, errc |-> "COOKIE_EXPIRED"]
       ELSE [kept |-> <<>>, resv |-> <<>>, errc |-> "FAILED"]
GetAheadReservationMut2(res) ==
  IF res.code = CODE_OK
  THEN LET resv == FilterResv(res.data)
       IN  IF Len(resv) = 0
           THEN [kept |-> resv, resv |-> <<>>, errc |-> "FAILED"]
           ELSE [kept |-> resv, resv |-> <<resv[1]>>, errc |-> "SUCCESS"]
  ELSE IF res.code = CODE_EXPIRED
       THEN [kept |-> <<>>, resv |-> <<>>, errc |-> "COOKIE_EXPIRED"]
       ELSE [kept |-> <<>>, resv |-> <<>>, errc |-> "FAILED"]
GetAheadReservation(res) ==
  IF res.code = CODE_OK
  THEN LET resv == FilterResv(res.data)
       IN  IF Len(resv) = 0
           THEN [kept |-> resv, resv |-> <<>>, errc |-> "NO_RESERVATION"]
           ELSE [kept |-> resv, resv |-> <<resv[1]>>, errc |-> "SUCCESS"]
  ELSE IF res.code = CODE_EXPIRED
       THEN [kept |-> <<>>, resv |-> <<>>, errc |-> "COOKIE_EXPIRED"]
       ELSE [kept |-> <<>>, resv |-> <<>>, errc |-> "FAILED"]

\* The seat table of the json/ directory that get_seat_resvDev_devSn reads.
SeatTable ==
  << [devName |-> "101-011", devId |-> "id-101-011", devSn |-> "sn-101-011"],
     [devName |-> "202-030", devId |-> "id-202-030", devSn |-> "sn-202-030"] >>

\* source.py:229-258 with tag = 'sign': the last matching entry wins, None
\* ("None") when no entry matches.
RECURSIVE ScanSeats(_, _, _)
ScanSeats(table, devName, resvDev) ==
  IF table = <<>> THEN resvDev
  ELSE ScanSeats(Tail(table), devName,
                 IF Head(table).devName = devName THEN Head(table).devSn ELSE resvDev)
get_seat_resvDev_devSn(devName) == ScanSeats(SeatTable, devName, "None")

\* sign.py:67  force_login = retc == ReturnCode.COOKIE_EXPIRED
ForceLogin(rc) == rc = "COOKIE_EXPIRED"

\* source.py:280  if not force_login and self.cookies['ic-cookie']
LoginSkipsMut(force, token) == token # ""
LoginSkips(force, token) == ~force /\ token # ""

\* sign.py:73  if stu['pushplus']
NotifyLoginFailureMut(push) == FALSE
NotifyLoginFailure(push) == push

\* sign.py:79  retc in (SUCCESS, ALREADY_SIGNED, NO_RESERVATION)
StopsAfterSignMut(rc) == rc \in {"SUCCESS", "ALREADY_SIGNED"}
StopsAfterSign(rc) == rc \in {"SUCCESS", "ALREADY_SIGNED", "NO_RESERVATION"}

\* sign.py:57  stu.get('cookie', external_cookies.get(name, ''))
InitialCookie(stuCookie, cached) == IF stuCookie = "absent" THEN cached ELSE stuCookie

\* -------------------------------------------------------------- state ----
VARIABLES
  pc,               \* position of main()
  args_cookie,      \* args.cookie is set (a cache path was given)
  external_cookies, \* main's external_cookies, "" = no entry
  cookie_dirty,     \* main's cookie_dirty
  idx,              \* index of stu in target_infos (0 before the first)
  pushplus,         \* stu['pushplus'] is truthy
  saved,            \* number of save_cookie_cache calls
  cookie,           \* yy.cookies['ic-cookie']
  login_url,        \* yy.urls['login_url']
  attempt,          \* iterations of range(2) started
  retc,             \* main's retc
  force_login,      \* argument of the running login call
  depth,            \* nesting depth of the running sign call
  devName,          \* argument of the running sign call
  resp,             \* parsed response of the reservation query
  kept,             \* get_ahead_reservation's list of the records it kept
  resv,             \* record returned by get_ahead_reservation
  errc,             \* outcome returned by get_ahead_reservation
  resvId,           \* sign's resvId, "" before it is extracted
  \* ---- observation of the run (history) ----
  logins,           \* login calls of this identity: [force, ret]
  signs,            \* sign_for_ahead_reservation calls of it: [cookie, ret]
  call_cookie,      \* token when the running login call was entered
  call_url,         \* login url when it was entered
  call_reset,       \* it has read the password-reset marker (source.py:311)
  call_reqs,        \* HTTP requests issued by it
  notified,         \* pushplus requests issued for this identity
  devReqs,          \* devSn of the device-login requests of the running sign call
  lastReq,          \* request issued by the latest step
  login_succeeded,  \* some login call of the run has returned SUCCESS
  \* ---- load_cookie_cache / save_cookie_cache on their own ----
  cache_dict,       \* the dict handed to save_cookie_cache
  cache_file,       \* the cache file: <<>> when it does not exist, else <<lines>>
  cache_loads,      \* results of the load_cookie_cache calls so far
  \* ---- ZWYT.reserve on its own ----
  periods,          \* self.periods
  dates,            \* the list get_reserve_date returned
  date_i,           \* windows of it the for loop has finished
  resvDev,          \* self.resvDev
  reserve_reqs      \* the creation requests sent: [date, resvDev, ans]

mainVars == <<args_cookie, external_cookies, cookie_dirty, idx, pushplus, saved>>
yyVars == <<cookie, login_url>>
loopVars == <<attempt, retc>>
callVars == <<force_login, call_cookie, call_url, call_reset, call_reqs>>
signVars == <<depth, devName, resp, kept, resv, errc, devReqs, resvId>>
histVars == <<login_succeeded>>
cacheVars == <<cache_dict, cache_file, cache_loads>>
reserveVars == <<periods, dates, date_i, resvDev, reserve_reqs>>
otherVars == <<cacheVars, reserveVars>>

vars ==
  <<pc, mainVars, yyVars, loopVars, callVars, signVars, logins, signs, notified,
    lastReq, histVars, cacheVars, reserveVars>>

\* A request of the running identity: what it carries and what came back.
ReqWith(kind, arg, ans) == [kind |-> kind, who |-> idx, arg |-> arg, ans |-> ans]
Req(kind) == ReqWith(kind, "", "")

\* No call of load_cookie_cache or save_cookie_cache on its own is under way.
CacheAtRest ==
  /\ cache_dict = <<>>
  /\ cache_file = <<>>
  /\ cache_loads = <<>>

\* No call of reserve is under way.
ReserveAtRest ==
  /\ periods = <<>>
  /\ dates = <<>>
  /\ date_i = 0
  /\ resvDev = ""
  /\ reserve_reqs = <<>>

Init ==
  /\ pc = "start"
  /\ CacheAtRest
  /\ ReserveAtRest
  /\ resvId = ""
  /\ login_succeeded = FALSE
  /\ args_cookie \in BOOLEAN
  /\ external_cookies = [i \in Ids |-> ""]
  /\ cookie_dirty = FALSE
  /\ idx = 0
  /\ pushplus = FALSE
  /\ saved = 0
  /\ cookie = ""
  /\ login_url = ""
  /\ attempt = 0
  /\ retc = "SUCCESS"
  /\ force_login = FALSE
  /\ depth = 0
  /\ devName = ""
  /\ resp = NoResp
  /\ kept = <<>>
  /\ resv = <<>>
  /\ errc = "none"
  /\ logins = <<>>
  /\ signs = <<>>
  /\ call_cookie = ""
  /\ call_url = ""
  /\ call_reset = FALSE
  /\ call_reqs = 0
  /\ notified = 0
  /\ devReqs = <<>>
  /\ lastReq = NoReq

\* A call that was running when an exception left it.
MarkRaised(calls) ==
  IF calls # <<>> /\ calls[Len(calls)].ret = "running"
  THEN [calls EXCEPT ![Len(calls)].ret = "raised"]
  ELSE calls

SetRet(calls, rc) == [calls EXCEPT ![Len(calls)].ret = rc]

\* The login call is left: its argument and the observation of it are dropped.
LeaveLogin ==
  /\ force_login' = FALSE
  /\ call_cookie' = ""
  /\ call_url' = ""
  /\ call_reset' = FALSE
  /\ call_reqs' = 0

\* sign_for_ahead_reservation is left: its locals are dropped.
LeaveSign ==
  /\ depth' = 0
  /\ devName' = ""
  /\ resp' = NoResp
  /\ kept' = <<>>
  /\ resv' = <<>>
  /\ errc' = "none"
  /\ devReqs' = <<>>
  /\ resvId' = ""

\* ------------------------------------------------------ main (sign.py) ----
\* sign.py:49-53  external_cookies = load_cookie_cache(args.cookie)
LoadCache ==
  /\ pc = "start"
  /\ UNCHANGED <<histVars, otherVars>>
  /\ external_cookies' \in
       IF args_cookie THEN [Ids -> CachedTokens] ELSE {[i \in Ids |-> ""]}
  /\ pc' = "for_stu"
  /\ lastReq' = NoReq
  /\ UNCHANGED <<args_cookie, cookie_dirty, idx, pushplus, saved, yyVars,
                 loopVars, callVars, signVars, logins, signs, notified>>

\* sign.py:55-64  next stu of target_infos, yy = ZWYT(...), retc = SUCCESS
NextStu ==
  /\ pc = "for_stu"
  /\ UNCHANGED <<histVars, otherVars>>
  /\ idx < NumStu
  /\ idx' = idx + 1
  /\ \E p \in BOOLEAN, sc \in StuCookies :
       /\ pushplus' = p
       /\ cookie' = InitialCookie(sc, external_cookies[idx + 1])
  /\ login_url' = ""
  /\ retc' = "SUCCESS"
  /\ attempt' = 0
  /\ logins' = <<>>
  /\ signs' = <<>>
  /\ notified' = 0
  /\ lastReq' = NoReq
  /\ pc' = "loop"
  /\ UNCHANGED <<args_cookie, external_cookies, cookie_dirty, saved, callVars,
                 signVars>>

\* sign.py:55 and 92-93  target_infos is exhausted:
\* if args.cookie and cookie_dirty: save_cookie_cache(...)
SaveCache ==
  /\ pc = "for_stu"
  /\ UNCHANGED <<histVars, otherVars>>
  /\ idx = NumStu
  /\ saved' = IF args_cookie /\ cookie_dirty THEN saved + 1 ELSE saved
  /\ pc' = "done"
  /\ lastReq' = NoReq
  /\ UNCHANGED <<args_cookie, external_cookies, cookie_dirty, idx, pushplus,
                 yyVars, loopVars, callVars, signVars, logins, signs, notified>>

\* sign.py:65-67  one more iteration of range(2): retc = yy.login(force_login=...)
CallLogin ==
  /\ pc = "loop"
  /\ UNCHANGED <<histVars, otherVars>>
  /\ attempt < Attempts
  /\ attempt' = attempt + 1
  /\ force_login' = ForceLogin(retc)
  /\ logins' = Append(logins, [force |-> ForceLogin(retc), ret |-> "running"])
  /\ call_cookie' = cookie
  /\ call_url' = login_url
  /\ call_reset' = FALSE
  /\ call_reqs' = 0
  /\ pc' = "login"
  /\ lastReq' = NoReq
  /\ UNCHANGED <<mainVars, yyVars, signVars, retc, signs, notified>>

\* sign.py:65  range(2) is exhausted
LoopExhausted ==
  /\ pc = "loop"
  /\ UNCHANGED <<histVars, otherVars>>
  /\ attempt >= Attempts
  /\ pc' = "for_stu"
  /\ lastReq' = NoReq
  /\ UNCHANGED <<mainVars, yyVars, loopVars, callVars, signVars, logins, signs,
                 notified>>

\* sign.py:68-78  what main does with login's result, up to the call of
\* sign_for_ahead_reservation
AfterLogin ==
  /\ pc = "after_login"
  /\ UNCHANGED <<histVars, otherVars>>
  /\ lastReq' = NoReq
  /\ LeaveLogin
  /\ IF retc = "GET_LOGIN_URL_FAILED"
     THEN /\ pc' = IF NotifyLoginFailure(pushplus) THEN "notify_login" ELSE "for_stu"
          /\ UNCHANGED <<external_cookies, cookie_dirty, signs>>
     ELSE /\ IF retc = "SUCCESS"
             THEN /\ external_cookies' = [external_cookies EXCEPT ![idx] = cookie]
                  /\ cookie_dirty' = TRUE
             ELSE UNCHANGED <<external_cookies, cookie_dirty>>
          /\ signs' = Append(signs, [cookie |-> cookie, ret |-> "running"])
          /\ pc' = "query"
  /\ UNCHANGED <<args_cookie, idx, pushplus, saved, yyVars, loopVars, signVars,
                 logins, notified>>

\* sign.py:74-75 with source.py:179-193  yy.pushplus(...); break
NotifyLoginFailed ==
  /\ pc = "notify_login"
  /\ UNCHANGED <<histVars, otherVars>>
  /\ notified' = notified + 1
  /\ lastReq' = Req("pushplus")
  /\ \E r \in {"ok", "fault"} :
       pc' = IF r = "ok" THEN "for_stu" ELSE "except"
  /\ UNCHANGED <<mainVars, yyVars, loopVars, callVars, signVars, logins, signs>>

\* sign.py:79-80  break on a final outcome, else the next iteration
AfterSign ==
  /\ pc = "after_sign"
  /\ UNCHANGED <<histVars, otherVars>>
  /\ pc' = IF StopsAfterSign(retc) THEN "for_stu" ELSE "loop"
  /\ lastReq' = NoReq
  /\ UNCHANGED <<mainVars, yyVars, loopVars, callVars, signVars, logins, signs,
                 notified>>

\* sign.py:86-90  except Exception: print(e); pushplus if configured; continue.
\* The pushplus call is outside any try: its exception leaves main.
ExceptMut ==
  /\ pc = "except"
  /\ UNCHANGED <<histVars, otherVars>>
  /\ IF pushplus
     THEN /\ notified' = notified + 1
          /\ lastReq' = Req("pushplus")
          /\ \E r \in {"ok", "fault"} :
               pc' = IF r = "ok" THEN "loop" ELSE "aborted"
     ELSE /\ notified' = notified
          /\ lastReq' = NoReq
          /\ pc' = "loop"
  /\ UNCHANGED <<mainVars, yyVars, loopVars, callVars, signVars, logins, signs>>
Except ==
  /\ pc = "except"
  /\ UNCHANGED <<histVars, otherVars>>
  /\ IF pushplus
     THEN /\ notified' = notified + 1
          /\ lastReq' = Req("pushplus")
          /\ \E r \in {"ok", "fault"} :
               pc' = IF r = "ok" THEN "for_stu" ELSE "aborted"
     ELSE /\ notified' = notified
          /\ lastReq' = NoReq
          /\ pc' = "for_stu"
  /\ UNCHANGED <<mainVars, yyVars, loopVars, callVars, signVars, logins, signs>>

\* ----------------------------------------------- ZWYT.login (source.py) ----
LocationHeaders == {"None", "cas?service=lib", "cas"}
\* "None": the response has no Location header; "cas": a login url without a
\* service= parameter.

\* login returns rc to main
LoginReturns(rc) ==
  /\ retc' = rc
  /\ logins' = SetRet(logins, rc)
  /\ pc' = "after_login"

\* an exception leaves login for main's handler
LoginRaises ==
  /\ pc' = "except"
  /\ logins' = MarkRaised(logins)
  /\ LeaveLogin
  /\ UNCHANGED retc

\* source.py:280-282  the fast path, else on to get_login_url
LoginEnter ==
  /\ pc = "login"
  /\ UNCHANGED <<histVars, otherVars>>
  /\ lastReq' = NoReq
  /\ IF LoginSkips(force_login, cookie)
     THEN LoginReturns("LOGIN_SKIPED")
     ELSE /\ pc' = "get_login_url"
          /\ UNCHANGED <<retc, logins>>
  /\ UNCHANGED <<mainVars, yyVars, attempt, callVars, signVars, signs, notified>>

\* source.py:354-355 in the try of 284-288  the address-resolution request
FindAddress ==
  /\ pc = "get_login_url"
  /\ UNCHANGED <<histVars, otherVars>>
  /\ lastReq' = Req("findaddress")
  /\ call_reqs' = call_reqs + 1
  /\ \E r \in {"ok", "fault"} :
       IF r = "ok"
       THEN /\ pc' = "to_login_page"
            /\ UNCHANGED <<retc, logins>>
       ELSE LoginReturns("GET_LOGIN_URL_FAILED")
  /\ UNCHANGED <<mainVars, yyVars, attempt, force_login, call_cookie, call_url,
                 call_reset, signVars, signs, notified>>

\* source.py:358-361 in the try of 284-288  the redirect request;
\* login_url = res.headers.get('Location'), None when the header is missing
ToLoginPage ==
  /\ pc = "to_login_page"
  /\ UNCHANGED <<histVars, otherVars>>
  /\ lastReq' = Req("toLoginPage")
  /\ call_reqs' = call_reqs + 1
  /\ \/ /\ LoginReturns("GET_LOGIN_URL_FAILED")
        /\ UNCHANGED login_url
     \/ /\ login_url' \in LocationHeaders
        /\ pc' = "fetch_form"
        /\ UNCHANGED <<retc, logins>>
  /\ UNCHANGED <<mainVars, cookie, attempt, force_login, call_cookie, call_url,
                 call_reset, signVars, signs, notified>>

\* source.py:290-295  GET the login form, lt and execution by xpath [0].
\* rr.get(url=None) raises before anything is sent.
FetchForm ==
  /\ pc = "fetch_form"
  /\ UNCHANGED <<histVars, otherVars>>
  /\ IF login_url = "None"
     THEN /\ lastReq' = NoReq
          /\ LoginRaises
     ELSE \E r \in {"form", "fault", "no_lt", "no_execution"} :
            /\ lastReq' = ReqWith("login_form", "", r)
            /\ IF r = "form"
               THEN /\ pc' = "submit"
                    /\ call_reqs' = call_reqs + 1
                    /\ UNCHANGED <<retc, logins, force_login, call_cookie, call_url, call_reset>>
               ELSE LoginRaises
  /\ UNCHANGED <<mainVars, yyVars, attempt, signVars, signs, notified>>

\* source.py:297-315  POST the credentials; passwordReset() does nothing;
\* ticket=(.*) of the Location header and service=(.*) of the login url by [0]
SubmitCredentialsMut ==
  /\ pc = "submit"
  /\ UNCHANGED <<histVars, otherVars>>
  /\ \E r \in {"fault", "ticket", "no_ticket", "reset_ticket", "reset_no_ticket"} :
     /\ lastReq' = ReqWith("login_submit", "", r)
     /\ IF r \in {"ticket", "reset_ticket"} /\ login_url = "cas?service=lib"
       THEN /\ pc' = "get_token"
            /\ call_reqs' = call_reqs + 1
            /\ call_reset' = (r = "reset_ticket")
            /\ UNCHANGED <<retc, logins, force_login, call_cookie, call_url>>
       ELSE LoginRaises
  /\ UNCHANGED <<mainVars, yyVars, attempt, signVars, signs, notified>>
SubmitCredentials ==
  /\ pc = "submit"
  /\ UNCHANGED <<histVars, otherVars>>
  /\ \E r \in {"fault", "ticket", "no_ticket", "reset_ticket", "reset_no_ticket"} :
     /\ lastReq' = ReqWith("login_submit", "", r)
     /\ IF r \in {"ticket", "reset_ticket"} /\ login_url = "cas?service=lib"
       THEN /\ pc' = "exchange_ticket"
            /\ call_reqs' = call_reqs + 1
            /\ call_reset' = (r = "reset_ticket")
            /\ UNCHANGED <<retc, logins, force_login, call_cookie, call_url>>
       ELSE LoginRaises
  /\ UNCHANGED <<mainVars, yyVars, attempt, signVars, signs, notified>>

\* source.py:316-320  GET service?ticket=..., unquote(Location), uniToken and
\* uuid by [0]
ExchangeTicket ==
  /\ pc = "exchange_ticket"
  /\ UNCHANGED <<histVars, otherVars>>
  /\ \E r \in {"ok", "fault", "no_location", "no_unitoken", "no_uuid"} :
     /\ lastReq' = ReqWith("service_ticket", "", r)
     /\ IF r = "ok"
       THEN /\ pc' = "get_token"
            /\ call_reqs' = call_reqs + 1
            /\ UNCHANGED <<retc, logins, force_login, call_cookie, call_url, call_reset>>
       ELSE LoginRaises
  /\ UNCHANGED <<mainVars, yyVars, attempt, signVars, signs, notified>>

\* source.py:329-339  GET auth/token; the token is what 'ic-cookie=(.*?);'
\* captures in Set-Cookie, the empty string included; return SUCCESS
GetTokenMut ==
  /\ pc = "get_token"
  /\ UNCHANGED otherVars
  /\ \/ /\ \E r \in {"fault", "no_set_cookie", "no_ic_cookie"} :
             /\ lastReq' = ReqWith("auth_token", "", r)
             /\ cookie' = IF r = "no_ic_cookie" THEN "" ELSE cookie
             /\ LoginRaises
        /\ UNCHANGED histVars
     \/ /\ cookie' \in IssuedTokens
        /\ lastReq' = ReqWith("auth_token", "", "ic_cookie")
        /\ call_reqs' = call_reqs + 1
        /\ LoginReturns("SUCCESS")
        /\ login_succeeded' = TRUE
        /\ UNCHANGED <<force_login, call_cookie, call_url, call_reset>>
  /\ UNCHANGED <<mainVars, login_url, attempt, signVars, signs, notified>>
GetToken ==
  /\ pc = "get_token"
  /\ UNCHANGED otherVars
  /\ \/ /\ \E r \in {"fault", "no_set_cookie", "no_ic_cookie"} :
             /\ lastReq' = ReqWith("auth_token", "", r)
             /\ LoginRaises
        /\ UNCHANGED <<cookie, histVars>>
     \/ /\ cookie' \in IssuedTokens
        /\ lastReq' = ReqWith("auth_token", "", "ic_cookie")
        /\ call_reqs' = call_reqs + 1
        /\ LoginReturns("SUCCESS")
        /\ login_succeeded' = TRUE
        /\ UNCHANGED <<force_login, call_cookie, call_url, call_reset>>
  /\ UNCHANGED <<mainVars, login_url, attempt, signVars, signs, notified>>

\* ------------------------- sign_for_ahead_reservation, sign (source.py) ----
\* sign_for_ahead_reservation returns rc to main
SignReturns(rc) ==
  /\ retc' = rc
  /\ signs' = SetRet(signs, rc)
  /\ LeaveSign
  /\ pc' = "after_sign"

\* an exception leaves sign_for_ahead_reservation for main's handler
SignRaises ==
  /\ pc' = "except"
  /\ signs' = MarkRaised(signs)
  /\ LeaveSign
  /\ UNCHANGED retc

\* source.py:401-447  the reservation query and get_ahead_reservation's result
QueryWith(answers) ==
  /\ pc = "query"
  /\ UNCHANGED <<histVars, otherVars>>
  /\ lastReq' = Req("resvinfo")
  /\ \/ SignRaises
     \/ /\ resp' \in answers
        /\ kept' = GetAheadReservation(resp').kept
        /\ resv' = GetAheadReservation(resp').resv
        /\ errc' = GetAheadReservation(resp').errc
        /\ pc' = "queried"
        /\ UNCHANGED <<retc, signs, depth, devName, devReqs, resvId>>
  /\ UNCHANGED <<mainVars, yyVars, attempt, callVars, logins, notified>>

QueryReservation == QueryWith(Responses)

\* source.py:454-460  return errc unless SUCCESS, else sign(devName) of the
\* record's first device ([0] of an empty list raises); the response and the
\* list of get_ahead_reservation are its locals and gone by then
SignForAhead ==
  /\ pc = "queried"
  /\ UNCHANGED <<histVars, otherVars>>
  /\ lastReq' = NoReq
  /\ IF errc # "SUCCESS"
     THEN SignReturns(errc)
     ELSE IF resv[1].devs = <<>>
          THEN SignRaises
          ELSE /\ devName' = resv[1].devs[1]
               /\ depth' = 1
               /\ pc' = "sign"
               /\ resp' = NoResp
               /\ kept' = <<>>
               /\ UNCHANGED <<retc, signs, resv, errc, devReqs, resvId>>
  /\ UNCHANGED <<mainVars, yyVars, attempt, callVars, logins, notified>>

DeviceLoginAnswers ==
  {[kind |-> k, label |-> "", resvId |-> ""] : k \in {"fault", "no_label", "no_reserveInfo"}}
    \cup {[kind |-> "other_seat", label |-> l, resvId |-> ""] : l \in Labels}
    \cup {[kind |-> "reserveInfo", label |-> "", resvId |-> i] : i \in ResvIds}
\* "other_seat": data is None and the message names the seat -(label)处;
\* "no_label": data is None and the message names no seat.

\* source.py:516-545  the device-scoped login of sign(devName); with data None
\* sign calls itself with the label of the message, at any depth, until the
\* interpreter's recursion limit raises
DeviceLogin ==
  /\ pc = "sign"
  /\ UNCHANGED <<histVars, otherVars>>
  /\ \E r \in DeviceLoginAnswers :
     /\ lastReq' = ReqWith("device_login", get_seat_resvDev_devSn(devName), r.kind)
     /\ IF r.kind = "other_seat" /\ depth < MaxRecursion
       THEN /\ devName' = r.label
            /\ depth' = depth + 1
            /\ devReqs' = Append(devReqs, get_seat_resvDev_devSn(devName))
            /\ pc' = "sign"
            /\ UNCHANGED <<retc, signs, resp, kept, resv, errc, resvId>>
       ELSE IF r.kind = "reserveInfo"
       THEN /\ pc' = "sign_post"
            /\ resvId' = r.resvId
            /\ devReqs' = Append(devReqs, get_seat_resvDev_devSn(devName))
            /\ UNCHANGED <<retc, signs, resp, kept, resv, errc, depth, devName>>
       ELSE IF r.kind = "no_reserveInfo"
       THEN SignReturns("NO_RESERVATION")
       ELSE SignRaises
  /\ UNCHANGED <<mainVars, yyVars, attempt, callVars, logins, notified>>

\* source.py:555-567  the outcome of the sign-in message
SignOutcomeMut(message) ==
  IF message = "ok" THEN "SUCCESS"
  ELSE IF message = "already" THEN "ALREADY_SIGNED"
  ELSE IF message = "none" THEN "SUCCESS"
  ELSE "FAILED"
SignOutcome(message) ==
  IF message = "ok" THEN "SUCCESS"
  ELSE IF message = "already" THEN "ALREADY_SIGNED"
  ELSE "FAILED"

\* source.py:548-567  POST {resvId} to the sign-in endpoint
SignPost ==
  /\ pc = "sign_post"
  /\ UNCHANGED <<histVars, otherVars>>
  /\ \/ /\ lastReq' = ReqWith("sign", resvId, "fault")
        /\ SignRaises
     \/ \E m \in SignMessages :
          /\ lastReq' = ReqWith("sign", resvId, m)
          /\ SignReturns(SignOutcome(m))
  /\ UNCHANGED <<mainVars, yyVars, attempt, callVars, logins, notified>>

Next ==
  \/ LoadCache
  \/ NextStu
  \/ SaveCache
  \/ CallLogin
  \/ LoopExhausted
  \/ LoginEnter
  \/ FindAddress
  \/ ToLoginPage
  \/ FetchForm
  \/ SubmitCredentials
  \/ ExchangeTicket
  \/ GetToken
  \/ AfterLogin
  \/ NotifyLoginFailed
  \/ QueryReservation
  \/ SignForAhead
  \/ DeviceLogin
  \/ SignPost
  \/ AfterSign
  \/ Except

Spec == Init /\ [][Next]_vars

\* ---------------------------------------------------------------------------
\* SpecInspect: one call of sign_for_ahead_reservation, entered as main enters
\* it for the first identity after a skipped login, with the reservation-list
\* response drawn from the larger set InspectResponses.
InitInspect ==
  /\ pc = "query"
  /\ CacheAtRest
  /\ ReserveAtRest
  /\ resvId = ""
  /\ login_succeeded = FALSE
  /\ args_cookie = FALSE
  /\ external_cookies = [i \in Ids |-> ""]
  /\ cookie_dirty = FALSE
  /\ idx = 1
  /\ pushplus \in BOOLEAN
  /\ cookie = "c0"
  /\ login_url = ""
  /\ attempt = 1
  /\ retc = "LOGIN_SKIPED"
  /\ force_login = FALSE
  /\ depth = 0
  /\ devName = ""
  /\ resp = NoResp
  /\ kept = <<>>
  /\ resv = <<>>
  /\ errc = "none"
  /\ saved = 0
  /\ logins = <<[force |-> FALSE, ret |-> "LOGIN_SKIPED"]>>
  /\ signs = <<[cookie |-> "c0", ret |-> "running"]>>
  /\ call_cookie = ""
  /\ call_url = ""
  /\ call_reset = FALSE
  /\ call_reqs = 0
  /\ notified = 0
  /\ devReqs = <<>>
  /\ lastReq = NoReq

InspectQuery == QueryWith(InspectResponses)

NextInspect ==
  \/ InspectQuery
  \/ SignForAhead
  \/ DeviceLogin
  \/ SignPost

SpecInspect == InitInspect /\ [][NextInspect]_vars

\* The state SpecInspect starts in, as a state of Spec.
InspectEntry ==
  /\ pc = "query" /\ idx = 1 /\ ~args_cookie /\ cookie = "c0" /\ login_url = ""
  /\ attempt = 1 /\ retc = "LOGIN_SKIPED" /\ ~force_login /\ depth = 0
  /\ devName = "" /\ resp = NoResp /\ kept = <<>> /\ resv = <<>>
  /\ errc = "none" /\ saved = 0 /\ ~cookie_dirty
  /\ logins = <<[force |-> FALSE, ret |-> "LOGIN_SKIPED"]>>
  /\ signs = <<[cookie |-> "c0", ret |-> "running"]>>
  /\ call_cookie = "" /\ call_url = "" /\ ~call_reset /\ call_reqs = 0 /\ notified = 0
  /\ devReqs = <<>> /\ lastReq = NoReq /\ resvId = ""
  /\ external_cookies = [i \in Ids |-> ""]
  /\ login_succeeded = FALSE
NotInspectEntry == ~InspectEntry

TypeOK ==
  /\ call_reset \in BOOLEAN
  /\ pc \in {"start", "for_stu", "loop", "login", "get_login_url", "to_login_page",
             "fetch_form", "submit", "exchange_ticket", "get_token", "after_login",
             "notify_login", "query", "queried", "sign", "sign_post", "after_sign",
             "except", "done", "aborted",
             "cache_dict", "cache_file", "cache_saved",
             "reserve", "reserve_loop", "reserve_done", "reserve_raised"}
  /\ idx \in 0..NumStu
  /\ attempt \in 0..Attempts
  /\ retc \in ReturnCode
  /\ depth \in 0..MaxRecursion

\* ---------------------------------------------------------------------------
\* SpecCache: load_cookie_cache and save_cookie_cache on their own.  A string
\* is a sequence of characters; "u1" and "u2" each stand for a 36-character
\* block that matches [a-f\d]{8}-(?:[a-f\d]{4}-){3}[a-f\d]{12}, "U1" for such
\* a block written with upper-case hex digits, "a", "b", "x" for letters.
MaxEntries == 2      \* entries of the dict handed to save_cookie_cache
MaxLines == 2        \* lines of a cache file that was not written by it
MaxLoads == 2        \* load_cookie_cache calls on one file

CacheNames == {<<"a">>, <<"b">>, <<"a", " ", "b">>, <<>>}
CacheTokens == {<<"u1">>, <<"u2">>, <<"U1">>, <<"x">>, <<>>}
CacheEntries == [name : CacheNames, cookie : CacheTokens]
\* a dict in insertion order: no name twice
CacheDicts ==
  {d \in SeqsUpTo(CacheEntries, MaxEntries) :
     \A j, k \in 1..Len(d) : d[j].name = d[k].name => j = k}
RawLines ==
  { <<"\n">>, <<" ", "\n">>, <<"a", "\n">>, <<"a", " ", "u1", "\n">>,
    <<"b", " ", " ", "u2", "\n">>, <<" ", "a", " ", "u2", " ", "\n">>,
    <<"a", " ", "u1", " ", "u1", "\n">>, <<"a", " ", "x", "\n">>,
    <<"b", " ", "U1", "\n">>, <<"b", " ", "u1">> }
RawFiles == SeqsUpTo(RawLines, MaxLines)

\* str.isspace() of one character
IsSpace(c) == c \in {" ", "\n"}

RECURSIVE LStrip(_)
LStrip(s) == IF s # <<>> /\ IsSpace(Head(s)) THEN LStrip(Tail(s)) ELSE s
RECURSIVE RStrip(_)
RStrip(s) ==
  IF s # <<>> /\ IsSpace(s[Len(s)]) THEN RStrip(SubSeq(s, 1, Len(s) - 1)) ELSE s
\* source.py:87  line.strip()
Strip(s) == RStrip(LStrip(s))

\* the longest prefix of s without whitespace
RECURSIVE TakeWord(_)
TakeWord(s) ==
  IF s = <<>> \/ IsSpace(Head(s)) THEN <<>> ELSE <<Head(s)>> \o TakeWord(Tail(s))

\* source.py:87  str.split(None, 1): at most two fields, cut at the first run
\* of whitespace; the rest keeps what follows, inner whitespace included
SplitOnce(s) ==
  LET t == LStrip(s)
      w == TakeWord(t)
      rest == LStrip(SubSeq(t, Len(w) + 1, Len(t)))
  IN  IF t = <<>> THEN <<>>
      ELSE IF rest = <<>> THEN <<w>>
      ELSE <<w, rest>>

\* source.py:82 and 91  re.fullmatch(uuid_pattern, s)
FullMatchUuid(s) == Len(s) = 1 /\ s[1] \in {"u1", "u2"}

\* cookie_dict[name] = cookie
DictSet(d, key, value) ==
  IF \E k \in 1..Len(d) : d[k].name = key
  THEN [k \in 1..Len(d) |->
          IF d[k].name = key THEN [name |-> key, cookie |-> value] ELSE d[k]]
  ELSE Append(d, [name |-> key, cookie |-> value])

\* source.py:86-99  the loop over the lines; line[0] of the warning at 89
\* raises IndexError when split returned no field
RECURSIVE LoadLines(_, _)
LoadLines(lines, cookie_dict) ==
  IF lines = <<>> THEN [raised |-> FALSE, dict |-> cookie_dict]
  ELSE LET line == SplitOnce(Strip(Head(lines)))
       IN  IF Len(line) # 2
           THEN IF line = <<>>
                THEN [raised |-> TRUE, dict |-> <<>>]
                ELSE LoadLines(Tail(lines), cookie_dict)
           ELSE IF ~FullMatchUuid(line[2])
                THEN LoadLines(Tail(lines), cookie_dict)
                ELSE LoadLines(Tail(lines), DictSet(cookie_dict, line[1], line[2]))

\* source.py:73-102  load_cookie_cache of a file: <<>> when the path does not
\* exist, <<lines>> otherwise
load_cookie_cache(file) ==
  IF file = <<>> THEN [raised |-> FALSE, dict |-> <<>>]
  ELSE LoadLines(file[1], <<>>)

\* source.py:104-108  the file save_cookie_cache writes
save_cookie_cache(cookies) ==
  << [k \in 1..Len(cookies) |->
        cookies[k].name \o <<" ">> \o cookies[k].cookie \o <<"\n">>] >>

\* Every variable of main() at its value before main starts.
MainAtRest ==
  /\ args_cookie = FALSE
  /\ external_cookies = [i \in Ids |-> ""]
  /\ cookie_dirty = FALSE
  /\ idx = 0
  /\ pushplus = FALSE
  /\ saved = 0
  /\ login_url = ""
  /\ attempt = 0
  /\ retc = "SUCCESS"
  /\ force_login = FALSE
  /\ depth = 0
  /\ resp = NoResp
  /\ kept = <<>>
  /\ resv = <<>>
  /\ errc = "none"
  /\ resvId = ""
  /\ logins = <<>>
  /\ signs = <<>>
  /\ call_cookie = ""
  /\ call_url = ""
  /\ call_reset = FALSE
  /\ call_reqs = 0
  /\ notified = 0
  /\ devReqs = <<>>
  /\ lastReq = NoReq
  /\ login_succeeded = FALSE

\* Either a dict is about to be saved to a path that does not exist yet, or a
\* file that somebody else wrote is about to be loaded.
InitCache ==
  /\ MainAtRest
  /\ ReserveAtRest
  /\ cookie = ""
  /\ devName = ""
  /\ cache_loads = <<>>
  /\ \/ /\ pc = "cache_dict"
        /\ cache_dict \in CacheDicts
        /\ cache_file = <<>>
     \/ /\ pc = "cache_file"
        /\ cache_dict = <<>>
        /\ cache_file \in {<<f>> : f \in RawFiles}

\* source.py:104-108  save_cookie_cache(path, cache_dict)
SaveCookieCache ==
  /\ pc = "cache_dict"
  /\ cache_file' = save_cookie_cache(cache_dict)
  /\ pc' = "cache_saved"
  /\ UNCHANGED <<cache_dict, cache_loads, mainVars, yyVars, loopVars, callVars,
                 signVars, logins, signs, notified, lastReq, histVars, reserveVars>>

\* source.py:73-102  load_cookie_cache(path)
LoadCookieCache ==
  /\ pc \in {"cache_file", "cache_saved"}
  /\ Len(cache_loads) < MaxLoads
  /\ cache_loads' = Append(cache_loads, load_cookie_cache(cache_file))
  /\ UNCHANGED <<pc, cache_dict, cache_file, mainVars, yyVars, loopVars, callVars,
                 signVars, logins, signs, notified, lastReq, histVars, reserveVars>>

NextCache ==
  \/ SaveCookieCache
  \/ LoadCookieCache

SpecCache == InitCache /\ [][NextCache]_vars

\* ---------------------------------------------------------------------------
\* SpecReserve: one call of ZWYT.reserve(devName) of an identity with a token.
MaxPeriods == 2      \* entries of self.periods

PeriodLists == {[k \in 1..n |-> k] : n \in 1..MaxPeriods}
ReserveAnswers == {"fault", "ok", "reserved", "other", "none"}
\* "ok" = '新增成功', "reserved" = a message containing '当前时段有预约',
\* "other" = any other message, "none" = a JSON body without message,
\* "fault" = no response, or a body that is not JSON

\* source.py:229-258 with tag = 'reserve': the devId of the last matching entry
RECURSIVE ScanSeatIds(_, _, _)
ScanSeatIds(table, seat, found) ==
  IF table = <<>> THEN found
  ELSE ScanSeatIds(Tail(table), seat,
                   IF Head(table).devName = seat THEN Head(table).devId ELSE found)
get_seat_resvDev(seat) == ScanSeatIds(SeatTable, seat, "None")

\* source.py:384-396  one window per period of the day
Windows(day, ps) == [k \in 1..Len(ps) |-> [day |-> day, period |-> ps[k]]]
\* source.py:364-398  return reserve_tomorrows + reserve_todays
get_reserve_date(ps) == Windows("tomorrow", ps) \o Windows("today", ps)

\* source.py:501-508  the if/elif/else on message; re.findall(pattern, None)
\* of the elif raises TypeError
ReserveGoesOn(ans) == ans \in {"ok", "reserved", "other"}

InitReserve ==
  /\ pc = "reserve"
  /\ MainAtRest
  /\ CacheAtRest
  /\ cookie = "c0"
  /\ devName \in Labels
  /\ periods \in PeriodLists
  /\ dates = <<>>
  /\ date_i = 0
  /\ resvDev = ""
  /\ reserve_reqs = <<>>

\* source.py:468-476  the seat lookup, get_person_appAccNo() and
\* get_reserve_date()
ReserveEnter ==
  /\ pc = "reserve"
  /\ resvDev' = get_seat_resvDev(devName)
  /\ \E r \in {"ok", "fault"} :
       /\ lastReq' = ReqWith("userinfo", "", r)
       /\ IF r = "ok"
          THEN /\ dates' = get_reserve_date(periods)
               /\ pc' = "reserve_loop"
          ELSE /\ dates' = dates
               /\ pc' = "reserve_raised"
  /\ UNCHANGED <<periods, date_i, reserve_reqs, mainVars, yyVars, loopVars,
                 callVars, signVars, logins, signs, notified, histVars, cacheVars>>

\* source.py:476-508  one iteration of the loop: the creation request of the
\* window and the branch on its message
ReserveWindow ==
  /\ pc = "reserve_loop"
  /\ date_i < Len(dates)
  /\ \E r \in ReserveAnswers :
       /\ lastReq' = ReqWith("reserve", resvDev, r)
       /\ reserve_reqs' =
            Append(reserve_reqs,
                   [date |-> dates[date_i + 1], resvDev |-> resvDev, ans |-> r])
       /\ IF ReserveGoesOn(r)
          THEN /\ date_i' = date_i + 1
               /\ pc' = "reserve_loop"
          ELSE /\ date_i' = date_i
               /\ pc' = "reserve_raised"
  /\ UNCHANGED <<periods, dates, resvDev, mainVars, yyVars, loopVars, callVars,
                 signVars, logins, signs, notified, histVars, cacheVars>>

\* source.py:476  the list of windows is exhausted, reserve returns
ReserveReturn ==
  /\ pc = "reserve_loop"
  /\ date_i = Len(dates)
  /\ pc' = "reserve_done"
  /\ lastReq' = NoReq
  /\ UNCHANGED <<reserveVars, mainVars, yyVars, loopVars, callVars, signVars,
                 logins, signs, notified, histVars, cacheVars>>

NextReserve ==
  \/ ReserveEnter
  \/ ReserveWindow
  \/ ReserveReturn

SpecReserve == InitReserve /\ [][NextReserve]_vars

\* ================================================================ claims ====
Last(calls) == calls[Len(calls)]
WorkflowRequests ==
  {"findaddress", "toLoginPage", "login_form", "login_submit", "service_ticket",
   "auth_token", "resvinfo", "device_login", "sign"}
FullLoginPcs ==
  {"get_login_url", "to_login_page", "fetch_form", "submit", "exchange_ticket",
   "get_token"}
\* Bit b (a power of two) of the bitmask m is set.
BitSet(m, b) == (m \div b) % 2 = 1
\* The needs-sign-in predicate as the specification states it.
NeedsSignInSpec(m) == ~BitSet(m, 64) \/ BitSet(m, 2048)
\* The serial number the seat table gives a label.
SerialOf(label) ==
  (CHOOSE e \in {SeatTable[k] : k \in 1..Len(SeatTable)} : e.devName = label).devSn

\* C1: for every identity the workflow loop calls login at most twice and
\* sign_for_ahead_reservation at most twice, and never calls
\* sign_for_ahead_reservation more often than login.
C1_LoopBound ==
  /\ Len(logins) <= 2
  /\ Len(signs) <= 2
  /\ Len(signs) <= Len(logins)
C1_Witness ==
  /\ Len(logins) = 2 /\ Len(signs) = 2
  /\ Last(signs).ret = "FAILED" /\ pc = "after_sign"

\* C2 (as claimed): login is called with force_login = true exactly when the
\* sign-in attempt just before it returned COOKIE_EXPIRED; after a first
\* COOKIE_EXPIRED the retried sign-in is preceded by one full re-authentication;
\* after a first FAILED the second login returns LOGIN_SKIPED and the sign-in is
\* retried with the same token.
C2_ForceIffExpired ==
  \A k \in 1..Len(logins) :
    logins[k].force = (k > 1 /\ signs[k - 1].ret = "COOKIE_EXPIRED")
C2_Original ==
  /\ C2_ForceIffExpired
  /\ (Len(signs) = 2 /\ signs[1].ret = "COOKIE_EXPIRED")
       => (logins[2].force /\ logins[2].ret = "SUCCESS")
  /\ (Len(logins) = 2 /\ signs[1].ret = "FAILED" /\ logins[2].ret # "running")
       => logins[2].ret = "LOGIN_SKIPED"
  /\ (Len(signs) = 2 /\ signs[1].ret = "FAILED")
       => signs[2].cookie = signs[1].cookie

\* C3: once sign_for_ahead_reservation has returned SUCCESS, ALREADY_SIGNED or
\* NO_RESERVATION for the identity being processed, no step issues a login,
\* query, device-login or sign-in request or calls login or
\* sign_for_ahead_reservation while it is the current identity; every workflow
\* request is issued for the current identity and main never returns to an
\* earlier one.
C3_StopsAfterFinal ==
  [][ /\ (signs # <<>> /\ Last(signs).ret \in {"SUCCESS", "ALREADY_SIGNED", "NO_RESERVATION"}
            /\ idx' = idx)
           => /\ lastReq'.kind \notin WorkflowRequests
              /\ Len(logins') = Len(logins)
              /\ Len(signs') = Len(signs)
      /\ lastReq'.kind \in WorkflowRequests => lastReq'.who = idx'
      /\ idx' >= idx ]_vars
C3_Witness ==
  /\ signs # <<>> /\ Last(signs).ret = "NO_RESERVATION"
  /\ idx = 1 /\ pc = "for_stu"

\* C4 (as claimed): whenever login has returned GET_LOGIN_URL_FAILED and main
\* has handled it, a notification request was issued for the identity.
C4_Original ==
  (logins # <<>> /\ Last(logins).ret = "GET_LOGIN_URL_FAILED"
     /\ pc \notin {"after_login", "notify_login"})
    => notified >= 1

\* C4 (amended): whenever login has returned GET_LOGIN_URL_FAILED and main has
\* handled it, a notification request was issued for the identity if and only
\* if its pushplus token is configured; in both cases that login call is the
\* identity's last and sign_for_ahead_reservation is not called after it.
C4_NotifyIfConfigured ==
  /\ (logins # <<>> /\ Last(logins).ret = "GET_LOGIN_URL_FAILED"
        /\ pc \notin {"after_login", "notify_login"})
       => (notified >= 1 <=> pushplus)
  /\ \A k \in 1..Len(logins) :
       logins[k].ret = "GET_LOGIN_URL_FAILED"
         => (k = Len(logins) /\ Len(signs) = k - 1 /\ pc # "loop")
C4_Witness ==
  /\ Len(logins) = 2 /\ Last(logins).ret = "GET_LOGIN_URL_FAILED"
  /\ pushplus /\ notified = 1 /\ pc = "for_stu"

\* C5: a login call with force_login = false and a non-empty token returns
\* LOGIN_SKIPED after zero HTTP requests with the token and the login url
\* unchanged; a call with force_login = true or an empty token never returns
\* LOGIN_SKIPED.
C5_FastPath ==
  /\ pc = "after_login" =>
       (retc = "LOGIN_SKIPED" <=> (~force_login /\ call_cookie # ""))
  /\ (pc = "after_login" /\ retc = "LOGIN_SKIPED") =>
       (call_reqs = 0 /\ cookie = call_cookie /\ login_url = call_url
          /\ lastReq.kind = "none")
  /\ pc \in FullLoginPcs => (force_login \/ call_cookie = "")
C5_Witness ==
  /\ pc = "after_login" /\ retc = "LOGIN_SKIPED"
  /\ Len(logins) = 2 /\ logins[1].ret = "SUCCESS" /\ login_url = "cas?service=lib"

\* C6: with code 0 the records get_ahead_reservation keeps are exactly those
\* whose status bitmask m has bit 64 clear or bit 2048 set, in response order.
C6_KeptIffNeedsSignIn ==
  (pc = "queried" /\ resp.code = 0) =>
    kept = SelectSeq(resp.data, LAMBDA r : NeedsSignInSpec(r.resvStatus))
C6_Witness ==
  /\ pc = "queried" /\ resp.code = 0 /\ Len(resp.data) = 1
  /\ resp.data[1].resvStatus = 64 + 2048 + 4
  /\ kept = resp.data

\* C7: get_ahead_reservation returns (None, COOKIE_EXPIRED) for code 300,
\* (None, FAILED) for every code other than 0 and 300, (None, NO_RESERVATION)
\* for code 0 with no record needing sign-in and (a record, SUCCESS) for code 0
\* with at least one; a record is returned only together with SUCCESS.
C7_CodeMapping ==
  pc = "queried" =>
    LET some == \E k \in 1..Len(resp.data) : NeedsSignInSpec(resp.data[k].resvStatus)
    IN  /\ resp.code = 300 => (resv = <<>> /\ errc = "COOKIE_EXPIRED")
        /\ resp.code \notin {0, 300} => (resv = <<>> /\ errc = "FAILED")
        /\ (resp.code = 0 /\ ~some) => (resv = <<>> /\ errc = "NO_RESERVATION")
        /\ (resp.code = 0 /\ some) => (resv # <<>> /\ errc = "SUCCESS")
        /\ resv # <<>> => errc = "SUCCESS"
C7_Witness ==
  /\ pc = "queried" /\ resp.code = 0 /\ Len(resp.data) = 2
  /\ errc = "NO_RESERVATION" /\ resv = <<>>

\* C8: the record get_ahead_reservation returns is the first one in response
\* order that needs sign-in, and the first device-login request of
\* sign_for_ahead_reservation carries the serial number of that record's first
\* device.
C8_FirstMatch ==
  /\ (pc = "queried" /\ errc = "SUCCESS") =>
       \E k \in 1..Len(resp.data) :
         /\ NeedsSignInSpec(resp.data[k].resvStatus)
         /\ \A j \in 1..(k - 1) : ~NeedsSignInSpec(resp.data[j].resvStatus)
         /\ resv = <<resp.data[k]>>
  /\ pc \in {"sign", "sign_post"} => resv # <<>>
  /\ (devReqs # <<>> /\ resv # <<>>) => devReqs[1] = SerialOf(resv[1].devs[1])
C8_Witness ==
  /\ pc = "sign_post"
  /\ resv = <<[resvStatus |-> 2, devs |-> <<"202-030", "101-011">>]>>
  /\ devReqs = <<"sn-202-030">>

\* C9 (as claimed): one top-level call of sign issues at most two device-login
\* requests.
C9_Original == Len(devReqs) <= 2

\* C10 (as claimed): when main ends, every identity of the target list has been
\* processed and the cache has been saved if a save was due.
C10_Original ==
  pc \in {"done", "aborted"} =>
    (idx = NumStu /\ pc = "done" /\ ((args_cookie /\ cookie_dirty) => saved = 1))

\* C12: the session token of an identity changes only in the step of a login
\* call that returns SUCCESS; a login call that returns LOGIN_SKIPED or
\* GET_LOGIN_URL_FAILED returns with the token it was entered with, and a login
\* that fails mid-handshake and every step of get_ahead_reservation,
\* sign_for_ahead_reservation, sign and reserve leave the token unchanged.
C12_TokenOnlyBySuccess ==
  [][ /\ (idx' = idx /\ cookie' # cookie)
         => (pc = "get_token" /\ pc' = "after_login" /\ retc' = "SUCCESS"
             /\ Last(logins').ret = "SUCCESS")
      /\ (pc' = "after_login" /\ retc' # "SUCCESS") => cookie' = call_cookie'
    ]_vars
C12_Witness ==
  /\ pc = "after_login" /\ retc = "SUCCESS" /\ Last(logins).ret = "SUCCESS"
  /\ call_cookie = "c0" /\ cookie = "t1"

\* The mapping a dict in insertion order stands for.
MappingOf(d) == {d[k] : k \in 1..Len(d)}
\* A token that is a UUID in the form the server issues it.
IsUuid(t) == t \in {<<"u1">>, <<"u2">>}
\* All whitespace-separated fields of a line.
RECURSIVE Fields(_)
Fields(s) ==
  LET t == LStrip(s)
      w == TakeWord(t)
  IN  IF t = <<>> THEN <<>>
      ELSE <<w>> \o Fields(SubSeq(t, Len(w) + 1, Len(t)))

\* C11 (as claimed): for every dict whose tokens are all UUIDs,
\* load_cookie_cache of the file save_cookie_cache wrote returns exactly that
\* mapping; loading the same file twice gives identical maps; an entry whose
\* token is not a UUID is dropped on read and the other entries are kept.
C11_Original ==
  pc = "cache_saved" =>
    /\ \A j, k \in 1..Len(cache_loads) : cache_loads[j] = cache_loads[k]
    /\ \A j \in 1..Len(cache_loads) :
         /\ ~cache_loads[j].raised
         /\ (\A k \in 1..Len(cache_dict) : IsUuid(cache_dict[k].cookie))
              => MappingOf(cache_loads[j].dict) = MappingOf(cache_dict)
         /\ MappingOf(cache_loads[j].dict) =
              {e \in MappingOf(cache_dict) : IsUuid(e.cookie)}

\* C19 (as claimed): load_cookie_cache never fails on a malformed line; every
\* line that is not exactly two whitespace-separated fields is skipped and the
\* well-formed lines of the same file are still loaded.
C19_Original ==
  pc = "cache_file" =>
    \A j \in 1..Len(cache_loads) :
      /\ ~cache_loads[j].raised
      /\ \A k \in 1..Len(cache_file[1]) :
           LET f == Fields(cache_file[1][k])
           IN  (Len(f) = 2 /\ IsUuid(f[2]))
                 => \E e \in MappingOf(cache_loads[j].dict) : e.name = f[1]
      /\ \A e \in MappingOf(cache_loads[j].dict) :
           \E k \in 1..Len(cache_file[1]) :
             Fields(cache_file[1][k]) = <<e.name, e.cookie>>

\* C13 (as claimed): the cache file is read once, before any identity is
\* processed, and written at most once, only after every identity has been
\* processed; at the end of a run it has been written if and only if a cache
\* path was configured and some identity's login returned SUCCESS, and the
\* written mapping holds the token of the last successful login of an identity
\* whose login returned SUCCESS (read off the identity processed last, whose
\* calls and token are on record when the file is written).
C13_Original ==
  /\ idx >= 1 => pc # "start"
  /\ saved <= 1
  /\ saved = 1 => (pc = "done" /\ idx = NumStu)
  /\ pc \in {"done", "aborted"} =>
       (saved = 1 <=> (args_cookie /\ login_succeeded))
  /\ (saved = 1 /\ \E k \in 1..Len(logins) : logins[k].ret = "SUCCESS")
       => external_cookies[idx] = cookie

\* C14 (as claimed): when the redirect response carries no Location header,
\* login sends neither the login-form request nor the credentials, and it ends
\* by returning GET_LOGIN_URL_FAILED, never by raising.
C14_Original ==
  login_url = "None" =>
    /\ lastReq.kind \notin {"login_form", "login_submit"}
    /\ (logins # <<>> /\ Last(logins).ret # "running")
         => Last(logins).ret = "GET_LOGIN_URL_FAILED"

\* What a login step answers when a required field of the handshake is
\* missing: lt, execution, ticket, uniToken, uuid, the ic-cookie segment.
HandshakeMisses ==
  {"no_lt", "no_execution", "no_ticket", "reset_no_ticket", "no_unitoken",
   "no_uuid", "no_ic_cookie"}

\* C15: a login call that an exception leaves, as it does on a miss of a
\* required handshake field, is not retried: the step that raises changes
\* neither the identity's token nor its cache entry, and from then on no login
\* and no sign_for_ahead_reservation is called and no workflow request is sent
\* for that identity, and its token and cache entry stay as they were.
C15_MissNotRetried ==
  [][ /\ (logins # <<>> /\ Last(logins).ret = "raised" /\ idx' = idx)
         => /\ logins' = logins
            /\ signs' = signs
            /\ cookie' = cookie
            /\ external_cookies' = external_cookies
            /\ lastReq'.kind \notin WorkflowRequests
      /\ (lastReq'.ans \in HandshakeMisses /\ lastReq' # lastReq)
         => /\ pc' = "except"
            /\ Last(logins').ret = "raised"
            /\ cookie' = cookie
            /\ external_cookies' = external_cookies
    ]_vars
C15_Witness ==
  /\ pc = "except" /\ lastReq.ans = "no_ic_cookie"
  /\ Len(logins) = 2 /\ logins[1].ret = "SUCCESS" /\ logins[2].ret = "raised"
  /\ cookie = "t1" /\ external_cookies[idx] = "t1"

\* C16: in a full login the token is set only by the step that reads the
\* token-exchange response, and every request of the handshake directly follows
\* the success of the one before it: address resolution, redirect with a
\* login url, login form with lt and execution, credentials answered with a
\* ticket, ticket exchange answered with uniToken and uuid, token exchange;
\* login returns SUCCESS only from the token-exchange step, after all six.
C16_StepsInOrder ==
  [][ /\ (idx' = idx /\ cookie' # cookie)
         => (lastReq'.kind = "auth_token" /\ lastReq'.ans = "ic_cookie")
      /\ lastReq'.kind = "auth_token"
         => (lastReq.kind = "service_ticket" /\ lastReq.ans = "ok")
      /\ lastReq'.kind = "service_ticket"
         => (lastReq.kind = "login_submit" /\ lastReq.ans \in {"ticket", "reset_ticket"})
      /\ lastReq'.kind = "login_submit"
         => (lastReq.kind = "login_form" /\ lastReq.ans = "form")
      /\ lastReq'.kind = "login_form"
         => (lastReq.kind = "toLoginPage" /\ login_url \notin {"", "None"})
      /\ lastReq'.kind = "toLoginPage" => lastReq.kind = "findaddress"
      /\ (pc # "after_login" /\ pc' = "after_login" /\ retc' = "SUCCESS")
         => (lastReq'.kind = "auth_token" /\ lastReq'.ans = "ic_cookie"
             /\ call_reqs' = 6)
    ]_vars
C16_Witness ==
  /\ pc = "after_login" /\ Last(logins) = [force |-> TRUE, ret |-> "SUCCESS"]
  /\ lastReq.kind = "auth_token" /\ call_reqs = 6 /\ cookie = "t2"

\* C17: in sign, a device-login response with data but without reserveInfo
\* ends the call with NO_RESERVATION and without a sign-in request; a response
\* with reserveInfo is followed by exactly one sign-in request, which carries
\* the extracted resvId, and the answer's message decides the result:
\* SUCCESS for the success message, ALREADY_SIGNED for the already-signed
\* message, FAILED for every other message and for no message.
C17_SignMapping ==
  [][ /\ (pc = "sign" /\ lastReq'.ans = "no_reserveInfo")
         => (lastReq'.kind = "device_login" /\ pc' = "after_sign"
             /\ retc' = "NO_RESERVATION")
      /\ (pc = "sign" /\ lastReq'.ans = "reserveInfo")
         => (lastReq'.kind = "device_login" /\ pc' = "sign_post"
             /\ resvId' \in ResvIds)
      /\ pc = "sign_post"
         => (lastReq'.kind = "sign" /\ pc' \in {"after_sign", "except"})
      /\ lastReq'.kind = "sign"
         => /\ pc = "sign_post"
            /\ lastReq.kind = "device_login" /\ lastReq.ans = "reserveInfo"
            /\ lastReq'.arg = resvId
            /\ lastReq'.ans # "fault"
                 => /\ pc' = "after_sign"
                    /\ retc' = CASE lastReq'.ans = "ok" -> "SUCCESS"
                                 [] lastReq'.ans = "already" -> "ALREADY_SIGNED"
                                 [] OTHER -> "FAILED"
    ]_vars
C17_Witness ==
  /\ pc = "after_sign" /\ lastReq.kind = "sign" /\ lastReq.arg = "r2"
  /\ lastReq.ans = "none" /\ retc = "FAILED"

\* C18 (as claimed): reserve sends exactly one creation request per window,
\* tomorrow's and today's window of every period, and whatever a window's
\* request is answered (success, slot already reserved, any other message or
\* no message at all) the requests of all later windows are still sent.
C18_Original ==
  (pc \in {"reserve_done", "reserve_raised"} /\ dates # <<>>
   /\ \A k \in 1..Len(reserve_reqs) : reserve_reqs[k].ans # "fault")
    => /\ Len(reserve_reqs) = 2 * Len(periods)
       /\ \A k \in 1..Len(reserve_reqs) : reserve_reqs[k].date = dates[k]
       /\ \A p \in 1..Len(periods), d \in {"tomorrow", "today"} :
            \E k \in 1..Len(reserve_reqs) :
              reserve_reqs[k].date = [day |-> d, period |-> periods[p]]

\* C20 (as claimed), for the identity processed last, whose calls are on
\* record when the file is written: when the token the cache holds for it was
\* rejected with COOKIE_EXPIRED and the forced login that followed did not
\* return SUCCESS, the mapping written to the cache file at the end of the run
\* does not hold that rejected token for that identity.
C20_Original ==
  (pc = "done" /\ saved = 1
   /\ Len(signs) = 1 /\ signs[1].ret = "COOKIE_EXPIRED" /\ signs[1].cookie # ""
   /\ Len(logins) = 2 /\ logins[1].ret = "LOGIN_SKIPED"
   /\ logins[2].force /\ logins[2].ret # "SUCCESS")
    => external_cookies[idx] # signs[1].cookie


\* C21: when the response to the credential submission contains the
\* password-reset marker, the login attempt is fatal: right after that answer
\* login has been left for main's handler, and a call that has read the marker
\* is never on its way to the token exchange, never stores a token and never
\* returns SUCCESS.
\* The code calls passwordReset(), whose body is empty, and goes on: with a
\* ticket in the Location header the call reaches the token exchange, stores
\* the token and returns SUCCESS.
ResetAnswers == {"reset_ticket", "reset_no_ticket"}
C21_Original ==
  /\ (lastReq.kind = "login_submit" /\ lastReq.ans \in ResetAnswers) => pc = "except"
  /\ call_reset => /\ pc \notin {"exchange_ticket", "get_token"}
                   /\ ~(pc = "after_login" /\ retc = "SUCCESS")

\* C22: every reservation query, device-login and sign-in request of the
\* workflow carries a non-empty session token: sign_for_ahead_reservation is
\* entered only when the login call just before it returned LOGIN_SKIPED or
\* SUCCESS, and a login call that has returned either of them leaves a
\* non-empty token in self.cookies['ic-cookie'].
\* 'ic-cookie=(.*?);' matches "ic-cookie=;" and captures the empty string,
\* which login stores before it returns SUCCESS.
SignRequests == {"resvinfo", "device_login", "sign"}
C22_ReachedAfterLogin ==
  \A k \in 1..Len(signs) :
    Len(logins) >= k /\ logins[k].ret \in {"LOGIN_SKIPED", "SUCCESS"}
C22_SkipHasToken ==
  (pc = "after_login" /\ retc = "LOGIN_SKIPED") => cookie # ""
C22_Original ==
  /\ C22_ReachedAfterLogin
  /\ C22_SkipHasToken
  /\ (pc = "after_login" /\ retc = "SUCCESS") => cookie # ""
  /\ \A k \in 1..Len(signs) : signs[k].cookie # ""
  /\ lastReq.kind \in SignRequests => cookie # ""
====
